---- MODULE Spec2Model ----
(***************************************************************************)
(* Model of telegram-watcher/bot_watcher.py: the forwarding core that      *)
(* decides which Telegram messages are delivered to the backend and how    *)
(* the per-chat watermark (last forwarded message id) is kept in the state *)
(* file.  Three modes share the code: the live event handler, the cron     *)
(* sweep of unread messages and the history backfill.                      *)
(*                                                                         *)
(* The cron sweep is one step: in cron mode no handler is registered, the  *)
(* chats have distinct watermark keys and the sweep reads the state file   *)
(* once, at its start.  The backfill pass is two steps, split at the       *)
(* first await of its dialog loop, so that the live handler can run while  *)
(* the pass holds the watermarks it loaded.  A call of the transport may   *)
(* raise in the middle of a pass; every backend call, contact fetch and    *)
(* state-file access draws its outcome (success or failure)                *)
(* nondeterministically.                                                   *)
(*                                                                         *)
(* Spec follows one process under every setting, over text messages;       *)
(* SpecContent adds media and empty messages; SpecRace adds a second cron  *)
(* invocation whose sweep overlaps the first one's run; SpecKinds gives    *)
(* the account two dialogs whose entities share a numeric id; SpecCron is  *)
(* Spec with the steps of a cron run taken fairly.                         *)
(***************************************************************************)
EXTENDS Integers, Sequences, FiniteSets, TLC

\* ---------------------------------------------------------------- bounds
\* Messages the account receives in a run, over all chats (message ids are
\* 1, 2, ... within a chat).
MaxMsgs == 2

\* ------------------------------------------------------- the chats
\* Telegram entities.  "" stands for an attribute that is None or absent.
Alice == [kind |-> "User", id |-> 1, username |-> "Alice", title |-> ""]
News == [kind |-> "Channel", id |-> 2, username |-> "", title |-> "News"]
\* A channel whose numeric id is that of the user Alice.
Twin == [kind |-> "Channel", id |-> Alice.id, username |-> "", title |-> "News"]
Dialogs == {Alice, News, Twin}

\* str.lower() on the strings that occur in the model.
Lower(s) ==
  CASE s = "Alice" -> "alice"
    [] s = "News" -> "news"
    [] OTHER -> s

\* A key made of the numeric id alone.
get_state_keyM(entity) == <<"Peer", entity.id>>

\* get_state_key: f"{entity_type}:{entity_id}", kept as the pair.
get_state_key(entity) == <<entity.kind, entity.id>>

Keys == {get_state_key(d) : d \in Dialogs}

\* An empty watermark mapping: dict.get(key, 0) of a missing key is 0.
EmptyState == [k \in Keys |-> 0]

\* ------------------------------------------------------- configuration
\* The settings a process may run under: IGNORE_CHAT_IDS and WATCH_CHATS as
\* parsed at import ("all", or the id set and the lowercased name set), the
\* backend's list of important contacts (GET contacts?important=1), and the
\* backfill limits.
Setting(ignore, all, ids, names, list, limit, days) ==
  [IGNORE_CHAT_IDS |-> ignore,
   watch |-> [all |-> all, watch_chat_ids |-> ids, watch_usernames |-> names],
   contacts |-> list,
   backfill_cfg |-> [BACKFILL_MESSAGE_LIMIT |-> limit, BACKFILL_DAYS |-> days]]

ById(n) == [telegramChatId |-> n, telegramUsername |-> ""]
ByName(u) == [telegramChatId |-> 0, telegramUsername |-> u]

Settings ==
  { \* every chat important and in scope
    Setting({}, TRUE, {}, {}, {ById(1), ById(2)}, 0, 0),
    \* News ignored, although important and in scope (by title)
    Setting({2}, FALSE, {}, {"alice", "news"}, {ById(1), ById(2)}, 0, 1),
    \* News important but out of scope
    Setting({}, FALSE, {1}, {}, {ById(1), ById(2)}, 1, 0),
    \* Alice important (by username) but out of scope, News the reverse
    Setting({}, FALSE, {}, {"news"}, {ByName("Alice")}, 1, 1),
    \* no important contact
    Setting({}, TRUE, {}, {}, {}, 0, 0) }

VARIABLES
  \* the configuration, read from the environment at import
  IGNORE_CHAT_IDS, watch, contacts, backfill_cfg,
  \* what the messages of the account's chats can hold in this run
  kinds,
  \* the dialogs the account has in this run
  chats,
  \* the Telegram account
  msgs,          \* per dialog, the messages oldest first: [id, old,
                 \* raw_text, media], where old says the date is more
                 \* than BACKFILL_DAYS days ago
  unread,        \* per dialog, dialog.unread_count
  state_file,    \* the persisted watermark mapping (0 = key absent)
  \* the process (main)
  pc, cron_mode, backfill, exit_code,
  state,         \* the watermark mapping backfill_history holds in memory
                 \* while its dialog loop runs (empty outside of it)
  \* a second invocation in cron mode, overlapping the first
  pc2,           \* "idle", or "sweeping" once its sweep has loaded the state
  state2,        \* the watermark mapping its sweep holds in memory
  \* observation of the run
  lastBatch,     \* per dialog, what the step just taken did to the chat
  loaded,        \* the mapping load_state returned to the pass just taken
  lastPass,      \* what the pass just finished did as a whole
  dropped,       \* the keys whose persisted value the step just taken lowered
  live_sent,     \* <<dialog, id>> the handler delivered while the dialog
                 \* loop of backfill_history was running
  delivered,     \* <<dialog, id>> delivered successfully so far
  redelivered,   \* <<dialog, id>> delivered successfully a second time
  owed,          \* <<mode, <<dialog, id>>>>: a delivery that failed in the
                 \* mode's last pass, with the dialogs unchanged and the
                 \* message not delivered since
  missed         \* the owed deliveries the mode's next pass did not attempt

config == <<IGNORE_CHAT_IDS, watch, contacts, backfill_cfg, kinds, chats>>
env == <<msgs, unread>>
proc == <<pc, cron_mode, backfill, exit_code, state>>
other == <<pc2, state2>>
vars == <<config, env, state_file, proc, other, lastBatch, loaded, lastPass,
          dropped, live_sent, delivered, redelivered, owed, missed>>

\* ------------------------------------------------------- helpers
Max2(a, b) == IF a >= b THEN a ELSE b

RECURSIVE Reverse(_)
Reverse(s) == IF s = <<>> THEN <<>> ELSE Append(Reverse(Tail(s)), Head(s))

Ids(s) == {s[i].id : i \in 1..Len(s)}

\* client.get_messages(entity, limit) and client.iter_messages(entity, limit):
\* the newest `limit` messages, newest first (limit 0 = None = no limit).
NewestFirst(ms, limit) ==
  LET n == IF limit = 0 \/ limit > Len(ms) THEN Len(ms) ELSE limit
  IN [i \in 1..n |-> ms[Len(ms) + 1 - i]]

\* chat_id in IGNORE_CHAT_IDS
IsIgnoredM(entity) == FALSE
IsIgnored(entity) == entity.id \in IGNORE_CHAT_IDS

\* fetch_important_contacts on a successful response
important_of(list) ==
  [ids |-> {e.telegramChatId : e \in {x \in list : x.telegramChatId # 0}},
   usernames |-> {Lower(e.telegramUsername) :
                    e \in {x \in list : x.telegramUsername # ""}}]

NoImportant == [ids |-> {}, usernames |-> {}]

\* matches_contact
MatchesContact(entity, imp) ==
  \/ entity.id \in imp.ids
  \/ entity.username # "" /\ Lower(entity.username) \in imp.usernames

should_forward(entity) ==
  \/ watch.all
  \/ entity.id \in watch.watch_chat_ids
  \/ entity.username # "" /\ Lower(entity.username) \in watch.watch_usernames
  \/ entity.title # "" /\ Lower(entity.title) \in watch.watch_usernames

\* str.strip() on the strings that occur in the model.
Strip(s) ==
  CASE s = " hi " -> "hi"
    [] OTHER -> s

\* What a message can hold: a text (with blanks around it), a media
\* attachment without text, or neither (a service message).
PlainText == [raw_text |-> " hi ", media |-> FALSE]
Contents ==
  {PlainText,
   [raw_text |-> "", media |-> TRUE],
   [raw_text |-> "", media |-> FALSE]}

\* A message of the account: Telethon's Message.raw_text returns the
\* attribute `message`.
Message(id, c) ==
  [id |-> id, old |-> FALSE, raw_text |-> c.raw_text, media |-> c.media]

message_of(m) == m.raw_text

extract_message_text(message) ==
  IF Strip(message.raw_text) # "" THEN Strip(message.raw_text)
  ELSE IF message_of(message) # "" /\ Strip(message_of(message)) # ""
       THEN Strip(message_of(message))
  ELSE IF message.media THEN "[Media message]"
  ELSE "[No text content]"

\* send_to_backend: TRUE unless the request for this message fails
send_to_backend(id, fails) == id \notin fails

\* `if message.id <= last_forwarded: continue` of the cron sweep
CronSkipM(id, last_forwarded) == id < last_forwarded
CronSkip(id, last_forwarded) == id <= last_forwarded

\* `if msg_id <= last_forwarded: break` of the backfill walk
BackfillStop(id, last_forwarded) == id <= last_forwarded

\* `if message_date and message_date < cutoff: break`
TooOldM(m, cut) == FALSE
TooOld(m, cut) == cut /\ m.old

\* `if send_to_backend(payload): last_forwarded = max(last_forwarded, id)`
AfterSendM(last_forwarded, id, ok) == Max2(last_forwarded, id)
AfterSend(last_forwarded, id, ok) ==
  IF ok THEN Max2(last_forwarded, id) ELSE last_forwarded

\* `for message in reversed(messages)`
DeliveryOrderM(messages) == messages
DeliveryOrder(messages) == Reverse(messages)

\* The delivery loop of the cron sweep over the messages in delivery order.
RECURSIVE CronLoop(_, _, _, _, _)
CronLoop(ms, last_forwarded, n, att, fails) ==
  IF ms = <<>>
  THEN [last_forwarded |-> last_forwarded, sent |-> n, attempts |-> att]
  ELSE LET m == Head(ms)
           ok == send_to_backend(m.id, fails)
       IN IF CronSkip(m.id, last_forwarded)
          THEN CronLoop(Tail(ms), last_forwarded, n, att, fails)
          ELSE CronLoop(Tail(ms), AfterSend(last_forwarded, m.id, ok),
                        IF ok THEN n + 1 ELSE n,
                        Append(att, [id |-> m.id, ok |-> ok,
                                     text |-> extract_message_text(m)]),
                        fails)

\* The walk of backfill_history over iter_messages: the collected prefix.
RECURSIVE Collect(_, _, _)
Collect(ms, last_forwarded, cut) ==
  IF ms = <<>> THEN <<>>
  ELSE LET m == Head(ms)
       IN IF BackfillStop(m.id, last_forwarded) \/ TooOld(m, cut)
          THEN <<>>
          ELSE <<m>> \o Collect(Tail(ms), last_forwarded, cut)

\* The delivery loop of backfill_history over messages_to_forward reversed.
RECURSIVE BackfillLoop(_, _, _, _, _)
BackfillLoop(ms, last_forwarded, n, att, fails) ==
  IF ms = <<>>
  THEN [last_forwarded |-> last_forwarded, sent |-> n, attempts |-> att]
  ELSE LET m == Head(ms)
           ok == send_to_backend(m.id, fails)
       IN BackfillLoop(Tail(ms), AfterSend(last_forwarded, m.id, ok),
                       IF ok THEN n + 1 ELSE n,
                       Append(att, [id |-> m.id, ok |-> ok,
                                    text |-> extract_message_text(m)]),
                       fails)


\* ------------------------------------------------------- observation
\* `cutoff = None`
NoCutoff == FALSE

\* What one step did to chat d: the transport's answer (messages, newest
\* first), the watermark it started from (wm), the delivery attempts in
\* order and the watermark the pass holds for the chat afterwards (lf).
Batch(mode, fetched, messages, wm, cut, attempts, lf) ==
  [mode |-> mode, fetched |-> fetched, messages |-> messages, wm |-> wm,
   cut |-> cut, attempts |-> attempts, lf |-> lf]

NoBatch == Batch("none", FALSE, <<>>, 0, NoCutoff, <<>>, 0)
NoBatches == [d \in Dialogs |-> NoBatch]

OkIds(att) == {att[i].id : i \in {j \in 1..Len(att) : att[j].ok}}
FailIds(att) == {att[i].id : i \in {j \in 1..Len(att) : ~att[j].ok}}
Pairs(d, ids) == {<<d, i>> : i \in ids}
OkPairs(b) == UNION {Pairs(d, OkIds(b[d].attempts)) : d \in Dialogs}
FailPairs(b) == UNION {Pairs(d, FailIds(b[d].attempts)) : d \in Dialogs}
TriedPairs(b) == UNION {Pairs(d, Ids(b[d].attempts)) : d \in Dialogs}

NothingOwed == {}

\* What a call of backfill_history or process_unread_important_messages did
\* as a whole: whether the request for the important contacts succeeded, the
\* contacts it gave, whether load_state was called, how save_state ended
\* ("none": not called), the value returned and whether the transport
\* raised; or, for a run of sync_contacts, how it ended.
Pass(mode, fetched, important, read, saved, ret, raised, sync) ==
  [mode |-> mode, fetched |-> fetched, important |-> important,
   read |-> read, saved |-> saved, ret |-> ret, raised |-> raised,
   sync |-> sync, by |-> "main"]

\* The same, of the invocation `by`.
Mark(by, p) == [p EXCEPT !.by = by]

NoPass ==
  Pass("none", FALSE, [ids |-> {}, usernames |-> {}], FALSE, "none", 0,
       FALSE, "none")

SyncPass(result) ==
  Pass("sync", FALSE, [ids |-> {}, usernames |-> {}], FALSE, "none", 0, FALSE,
       result)

\* The deliveries of the handler among those of a step.
LivePairs(b) ==
  UNION {Pairs(d, OkIds(b[d].attempts)) : d \in {x \in Dialogs :
                                                  b[x].mode = "live"}}

\* The deliveries of one step, recorded.
Record(b) ==
  /\ lastBatch' = b
  /\ delivered' = delivered \cup OkPairs(b)
  /\ redelivered' = OkPairs(b) \cap delivered
  /\ live_sent' = IF pc = "backfilling" THEN live_sent \cup LivePairs(b)
                  ELSE {}

\* The keys whose persisted value goes down when the file becomes `file`.
Lowered(file) == {k \in Keys : file[k] < state_file[k]}

\* A step that delivers nothing.
Still ==
  /\ lastBatch' = NoBatches /\ loaded' = EmptyState /\ redelivered' = {}
  /\ missed' = {} /\ dropped' = {}
  /\ live_sent' = IF pc = "backfilling" THEN live_sent ELSE {}
  /\ UNCHANGED delivered

\* A step that delivers nothing and ends no pass.
Quiet == Still /\ lastPass' = NoPass

\* A pass of `mode` went through the dialogs: a message it failed to deliver
\* is owed by the next pass of the mode over the same dialog state, unless
\* some mode delivers it first.
PassTaken(mode, b) ==
  /\ missed' = {x[2] : x \in {y \in owed : y[1] = mode
                                          /\ y[2] \notin TriedPairs(b)}}
  /\ owed' = {x \in owed : x[1] # mode /\ x[2] \notin OkPairs(b)}
               \cup {<<mode, q>> : q \in FailPairs(b)}

\* A pass the transport cut short owes nothing and is owed nothing.
PassCut == missed' = {} /\ owed' = NothingOwed

\* ------------------------------------------------------- initial state
StartOn(settings, ks, cs) ==
  /\ \E k \in settings :
       /\ IGNORE_CHAT_IDS = k.IGNORE_CHAT_IDS
       /\ watch = k.watch
       /\ contacts = k.contacts
       /\ backfill_cfg = k.backfill_cfg
  /\ kinds = ks
  /\ chats = cs
  /\ msgs = [d \in Dialogs |-> <<>>]
  /\ unread = [d \in Dialogs |-> 0]
  /\ state_file = EmptyState
  /\ pc = "idle" /\ cron_mode = FALSE /\ backfill = FALSE /\ exit_code = 0
  /\ state = EmptyState
  /\ pc2 = "idle" /\ state2 = EmptyState
  /\ lastBatch = NoBatches /\ loaded = EmptyState /\ lastPass = NoPass
  /\ dropped = {} /\ live_sent = {}
  /\ delivered = {} /\ redelivered = {}
  /\ owed = NothingOwed /\ missed = {}

\* The account with the dialogs Alice and News.
Start(settings, ks) == StartOn(settings, ks, {Alice, News})

\* Every setting, the chats carrying text messages.
Init == Start(Settings, {PlainText})

\* ------------------------------------------------------- the process
\* The messages received so far.
RECURSIVE SumLen(_)
SumLen(ds) == IF ds = {} THEN 0
              ELSE LET d == CHOOSE x \in ds : TRUE
                   IN Len(msgs[d]) + SumLen(ds \ {d})
Received == SumLen(Dialogs)

\* The handler is registered once main is past the login, in live mode.
HandlerRegistered ==
  ~cron_mode /\ pc \in {"sync", "backfill", "backfilling", "listening"}

\* main up to the mode switch: connect, is_user_authorized, login.
\* `b` is `backfill or BACKFILL_ON_START`.
main(c, b, authorized) ==
  /\ pc = "idle"
  /\ IF ~authorized /\ c
     THEN /\ pc' = "idle" /\ exit_code' = 2
          /\ cron_mode' = FALSE /\ backfill' = FALSE
     ELSE /\ pc' = "sync" /\ exit_code' = 0
          /\ cron_mode' = c /\ backfill' = b
  /\ Quiet
  /\ UNCHANGED <<config, other, env, state_file, state, owed>>

AfterBackfillM == IF cron_mode THEN "backfill" ELSE "listening"
AfterBackfill == IF cron_mode THEN "cron" ELSE "listening"

\* How sync_contacts can end: the contacts are posted, or the request to
\* Telegram raises, or the request to the backend does.  Either failure is
\* logged and swallowed.
SyncResults == {"synced", "transport_failed", "backend_failed"}

\* Where main goes on after `await sync_contacts(client)`.
AfterSyncM(result) ==
  IF result # "synced" THEN "idle"
  ELSE IF backfill THEN "backfill" ELSE AfterBackfill
AfterSync(result) == IF backfill THEN "backfill" ELSE AfterBackfill

\* sync_contacts at startup: it touches nothing of the forwarding path.
sync_contacts(result) ==
  /\ pc = "sync"
  /\ pc' = AfterSync(result)
  /\ Still /\ lastPass' = SyncPass(result)
  /\ UNCHANGED <<config, other, env, state_file, cron_mode, backfill, exit_code,
                 state, owed>>

\* periodic_contact_sync: a later round of sync_contacts, in live mode.
periodic_contact_sync(result) ==
  /\ pc = "listening"
  /\ Still /\ lastPass' = SyncPass(result)
  /\ UNCHANGED <<config, other, env, state_file, proc, owed>>

\* load_state: the file's mapping, or {} when it is missing or unreadable.
load_state(readable) == IF readable THEN state_file ELSE EmptyState

\* save_state: the mapping is written; or open() fails and the file stays;
\* or the write fails after open("w") has truncated the file.
save_stateM(st, outcome) ==
  CASE outcome = "written" -> [k \in Keys |-> Max2(st[k], state_file[k])]
    [] outcome = "open_failed" -> state_file
    [] outcome = "write_failed" -> EmptyState
save_state(st, outcome) ==
  CASE outcome = "written" -> st
    [] outcome = "open_failed" -> state_file
    [] outcome = "write_failed" -> EmptyState

SaveOutcomes == {"written", "open_failed", "write_failed"}

\* Whether load_state can read the file: a file that is missing reads as {}.
Readable == IF state_file = EmptyState THEN {TRUE} ELSE BOOLEAN

\* fetch_important_contacts
fetch_important_contacts(fetched) ==
  IF fetched THEN important_of(contacts) ELSE NoImportant

\* `if not important_ids and not important_usernames: return 0`
ShortCircuitM(imp) == FALSE
ShortCircuit(imp) == imp.ids = {} /\ imp.usernames = {}

\* The order in which iter_dialogs yields the dialogs.
InAccount(d) == d \in chats
DialogOrder == SelectSeq(<<Alice, Twin, News>>, InAccount)

\* The dialogs a pass gets through: all of them, or those before the one at
\* which the transport (iter_dialogs, get_messages, iter_messages) raises.
Reached == 0..Len(DialogOrder)
Raised(done) == done < Len(DialogOrder)

\* The backend requests that fail in a pass that starts from the mapping
\* st, per chat: requests are made for messages above the watermark only.
Failures(st) ==
  {f \in [Dialogs -> SUBSET (1..MaxMsgs)] :
     \A d \in Dialogs :
       f[d] \subseteq {i \in Ids(msgs[d]) : i > st[get_state_key(d)]}}

\* ------------------------------------------------------- cron sweep
\* One iteration of `async for dialog in client.iter_dialogs()`.
CronDialog(d, st, imp, fails) ==
  LET state_key == get_state_key(d)
      last_forwarded == st[state_key]
  IN IF \/ unread[d] <= 0
        \/ IsIgnored(d)
        \/ ~MatchesContact(d, imp)
        \/ ~should_forward(d)
     THEN [state |-> st, sent |-> 0, up |-> 0,
           batch |-> Batch("cron", FALSE, <<>>, last_forwarded, NoCutoff,
                           <<>>, last_forwarded)]
     ELSE LET messages == NewestFirst(msgs[d], Max2(unread[d], 1))
              r == CronLoop(DeliveryOrder(messages), last_forwarded, 0, <<>>,
                            fails)
              up == r.last_forwarded > st[state_key]
              new == IF up THEN [st EXCEPT ![state_key] = r.last_forwarded]
                     ELSE st
          IN [state |-> new, sent |-> r.sent, up |-> IF up THEN 1 ELSE 0,
              batch |-> Batch("cron", TRUE, messages, last_forwarded,
                              NoCutoff, r.attempts, new[state_key])]

RECURSIVE CronPass(_, _, _, _)
CronPass(ds, acc, imp, fails) ==
  IF ds = <<>> THEN acc
  ELSE LET d == Head(ds)
           r == CronDialog(d, acc.state, imp, fails[d])
       IN CronPass(Tail(ds),
                   [state |-> r.state, sent |-> acc.sent + r.sent,
                    updated_keys |-> acc.updated_keys + r.up,
                    batches |-> [acc.batches EXCEPT ![d] = r.batch]],
                   imp, fails)

PassBegin(st) ==
  [state |-> st, sent |-> 0, updated_keys |-> 0, batches |-> NoBatches]

\* `if notifications_sent > 0: save_state(state)`
CronSaves(r) == r.sent > 0

\* main's `return 0` after the sweep; an exception the sweep lets through
\* leaves main and asyncio.run, and the interpreter exits with status 1.
ExitAfterSweep(raised) == IF raised THEN 1 ELSE 0

\* The end of a pass that got through `done` dialogs with result r: an
\* exception of the transport leaves the function before save_state.
PassEnd(mode, by, fetched, imp, r, done, saves) ==
  /\ Record(r.batches)
  /\ IF Raised(done)
     THEN /\ PassCut /\ UNCHANGED state_file /\ dropped' = {}
          /\ lastPass' = Mark(by, Pass(mode, fetched, imp, TRUE, "none", 0,
                                       TRUE, "none"))
     ELSE /\ PassTaken(mode, r.batches)
          /\ IF saves
             THEN \E outcome \in SaveOutcomes :
                    /\ state_file' = save_state(r.state, outcome)
                    /\ dropped' = Lowered(save_state(r.state, outcome))
                    /\ lastPass' = Mark(by, Pass(mode, fetched, imp, TRUE,
                                                 outcome, r.sent, FALSE,
                                                 "none"))
             ELSE /\ UNCHANGED state_file /\ dropped' = {}
                  /\ lastPass' = Mark(by, Pass(mode, fetched, imp, TRUE,
                                               "none", r.sent, FALSE, "none"))

\* process_unread_important_messages, then main's disconnect and return 0.
\* No handler is registered in cron mode: nothing of the process runs
\* between the steps of the sweep.
process_unread_important_messages(fetched) ==
  /\ pc = "cron"
  /\ LET imp == fetch_important_contacts(fetched)
     IN IF ShortCircuit(imp)
        THEN /\ Still /\ UNCHANGED <<state_file, owed>>
             /\ lastPass' = Pass("cron", fetched, imp, FALSE, "none", 0,
                                 FALSE, "none")
             /\ exit_code' = ExitAfterSweep(FALSE)
        ELSE \E readable \in Readable, done \in Reached :
             \E fails \in Failures(load_state(readable)) :
               LET r == CronPass(SubSeq(DialogOrder, 1, done),
                                 PassBegin(load_state(readable)), imp, fails)
               IN /\ loaded' = load_state(readable)
                  /\ PassEnd("cron", "main", fetched, imp, r, done,
                             CronSaves(r))
                  /\ exit_code' = ExitAfterSweep(Raised(done))
  /\ pc' = "idle"
  /\ cron_mode' = FALSE /\ backfill' = FALSE
  /\ UNCHANGED <<config, other, env, state>>

\* ------------------------------------------------------- backfill
BackfillDialog(d, st, imp, cut, fails) ==
  LET state_key == get_state_key(d)
      last_forwarded == st[state_key]
      limit == IF backfill_cfg.BACKFILL_MESSAGE_LIMIT > 0
               THEN backfill_cfg.BACKFILL_MESSAGE_LIMIT ELSE 0
  IN IF IsIgnored(d) \/ ~MatchesContact(d, imp)
     THEN [state |-> st, sent |-> 0, up |-> 0,
           batch |-> Batch("backfill", FALSE, <<>>, last_forwarded, cut,
                           <<>>, last_forwarded)]
     ELSE LET messages == NewestFirst(msgs[d], limit)
              messages_to_forward == Collect(messages, last_forwarded, cut)
              r == BackfillLoop(DeliveryOrder(messages_to_forward),
                                last_forwarded, 0, <<>>, fails)
              up == r.last_forwarded > st[state_key]
              new == IF up THEN [st EXCEPT ![state_key] = r.last_forwarded]
                     ELSE st
          IN [state |-> new, sent |-> r.sent, up |-> IF up THEN 1 ELSE 0,
              batch |-> Batch("backfill", TRUE, messages, last_forwarded,
                              cut, r.attempts, new[state_key])]

RECURSIVE BackfillPass(_, _, _, _, _)
BackfillPass(ds, acc, imp, cut, fails) ==
  IF ds = <<>> THEN acc
  ELSE LET d == Head(ds)
           r == BackfillDialog(d, acc.state, imp, cut, fails[d])
       IN BackfillPass(Tail(ds),
                       [state |-> r.state, sent |-> acc.sent + r.sent,
                        updated_keys |-> acc.updated_keys + r.up,
                        batches |-> [acc.batches EXCEPT ![d] = r.batch]],
                       imp, cut, fails)

\* `cutoff = datetime.now(timezone.utc) - timedelta(days=BACKFILL_DAYS)` when
\* BACKFILL_DAYS > 0, else None: whether there is a cutoff (a message's `old`
\* holds its comparison with it).
Cutoff == backfill_cfg.BACKFILL_DAYS > 0

\* `if updated_keys > 0: save_state(state)`
BackfillSaves(r) == r.updated_keys > 0

\* backfill_history up to its dialog loop: the important contacts are
\* fetched and the state file is loaded, without an await in between.
backfill_history(fetched) ==
  /\ pc = "backfill"
  /\ LET imp == fetch_important_contacts(fetched)
     IN IF ShortCircuit(imp)
        THEN /\ Still
             /\ lastPass' = Pass("backfill", fetched, imp, FALSE, "none", 0,
                                 FALSE, "none")
             /\ pc' = AfterBackfill
             /\ UNCHANGED state
        ELSE \E readable \in Readable :
               /\ state' = load_state(readable)
               /\ pc' = "backfilling"
               /\ Quiet
  /\ UNCHANGED <<config, other, env, state_file, cron_mode, backfill, exit_code,
                 owed>>

\* The dialog loop of backfill_history, its save_state and return; main
\* catches what it raises.  The loop awaits the transport, so the handler
\* can run between backfill_history and this step.
backfill_dialogs ==
  /\ pc = "backfilling"
  /\ \E fails \in Failures(state), done \in Reached :
       LET imp == fetch_important_contacts(TRUE)
           r == BackfillPass(SubSeq(DialogOrder, 1, done), PassBegin(state),
                             imp, Cutoff, fails)
       IN /\ loaded' = state
          /\ PassEnd("backfill", "main", TRUE, imp, r, done,
                     BackfillSaves(r))
  /\ state' = EmptyState
  /\ pc' = AfterBackfill
  /\ UNCHANGED <<config, other, env, cron_mode, backfill, exit_code>>

\* ------------------------------------------------------- live mode
\* The state file after the handler ran on message `id` of chat d: the
\* handler neither loads nor saves the watermarks.
handler_stateM(file, d, id, ok) ==
  IF ok THEN [file EXCEPT ![get_state_key(d)] = Max2(@, id)] ELSE file
handler_state(file, d, id, ok) == file

\* A message arrives in chat d and the NewMessage handler runs on it.
handler(d, is_self, content, ok) ==
  /\ HandlerRegistered
  /\ Received < MaxMsgs
  /\ LET id == Len(msgs[d]) + 1
         is_private == d.kind = "User"
         message_text == content.raw_text
         att == IF \/ is_private /\ is_self
                   \/ IsIgnored(d)
                   \/ ~should_forward(d)
                   \/ message_text = "" /\ ~content.media
                THEN <<>>
                ELSE <<[id |-> id, ok |-> ok, text |-> message_text]>>
     IN /\ msgs' = [msgs EXCEPT ![d] = Append(@, Message(id, content))]
        /\ unread' = [unread EXCEPT ![d] = IF is_self THEN @ ELSE @ + 1]
        /\ Record([NoBatches EXCEPT
                     ![d] = Batch("live", FALSE, <<>>, 0, NoCutoff, att, 0)])
        /\ state_file' = handler_state(state_file, d, id, att # <<>> /\ ok)
  /\ loaded' = EmptyState /\ lastPass' = NoPass /\ dropped' = {}
  /\ owed' = NothingOwed /\ missed' = {}
  /\ UNCHANGED <<config, other, proc>>

\* run_until_disconnected returns: main returns 0.
Disconnect ==
  /\ pc = "listening"
  /\ pc' = "idle" /\ exit_code' = 0
  /\ cron_mode' = FALSE /\ backfill' = FALSE
  /\ Quiet
  /\ UNCHANGED <<config, other, env, state_file, state, owed>>

\* ------------------------------------------------------- the account
\* A message arrives while no handler is registered.
Arrive(d, content) ==
  /\ ~HandlerRegistered
  /\ Received < MaxMsgs
  /\ msgs' = [msgs EXCEPT ![d] = Append(@, Message(Len(@) + 1, content))]
  /\ unread' = [unread EXCEPT ![d] = @ + 1]
  /\ Quiet /\ owed' = NothingOwed
  /\ UNCHANGED <<config, other, state_file, proc>>

\* The user reads chat d.
MarkRead(d) ==
  /\ unread[d] > 0
  /\ unread' = [unread EXCEPT ![d] = 0]
  /\ Quiet /\ owed' = NothingOwed
  /\ UNCHANGED <<config, other, msgs, state_file, proc>>

\* Time passes: the oldest message of chat d that was within BACKFILL_DAYS
\* days is so no more.
Age(d) ==
  /\ backfill_cfg.BACKFILL_DAYS > 0
  /\ \E i \in 1..Len(msgs[d]) :
       /\ ~msgs[d][i].old
       /\ \A j \in 1..(i - 1) : msgs[d][j].old
       /\ msgs' = [msgs EXCEPT ![d][i].old = TRUE]
  /\ Quiet /\ owed' = NothingOwed
  /\ UNCHANGED <<config, other, unread, state_file, proc>>

Next ==
  \/ \E c \in BOOLEAN, b \in BOOLEAN, a \in BOOLEAN : main(c, b, a)
  \/ \E r \in SyncResults : sync_contacts(r)
  \/ \E r \in SyncResults : periodic_contact_sync(r)
  \/ \E f \in BOOLEAN : process_unread_important_messages(f)
  \/ \E f \in BOOLEAN : backfill_history(f)
  \/ backfill_dialogs
  \/ \E d \in chats, s \in BOOLEAN, c \in kinds, ok \in BOOLEAN :
       handler(d, s, c, ok)
  \/ Disconnect
  \/ \E d \in chats, c \in kinds : Arrive(d, c)
  \/ \E d \in Dialogs : MarkRead(d)
  \/ \E d \in Dialogs : Age(d)

Spec == Init /\ [][Next]_vars

\* The steps of a cron run.  main awaits each call in turn on the event
\* loop, and every request of a call returns or raises, so a run that has
\* a step to take takes it.
CronRun ==
  /\ cron_mode
  /\ \/ \E r \in SyncResults : sync_contacts(r)
     \/ \E f \in BOOLEAN : backfill_history(f)
     \/ backfill_dialogs
     \/ \E f \in BOOLEAN : process_unread_important_messages(f)
SpecCron == Init /\ [][Next]_vars /\ WF_vars(CronRun)

\* ------------------------------------------------------- two invocations
\* A second invocation in cron mode reaches its unread sweep while the
\* first one runs: it fetches the important contacts and loads the state.
\* It reads the file as it is; the file that cannot be read is followed in
\* the first invocation.
other_load(fetched) ==
  /\ cron_mode /\ pc \in {"sync", "backfill", "backfilling", "cron"}
  /\ pc2 = "idle"
  /\ LET imp == fetch_important_contacts(fetched)
     IN IF ShortCircuit(imp)
        THEN UNCHANGED other
        ELSE /\ state2' = load_state(TRUE)
             /\ pc2' = "sweeping"
  /\ Quiet
  /\ UNCHANGED <<config, env, state_file, proc, owed>>

\* The dialog loop of the second invocation's sweep, its save_state and
\* return: the first invocation may have run its own sweep, and exited, in
\* between.
other_sweep ==
  /\ pc2 = "sweeping"
  /\ \E fails \in Failures(state2), done \in Reached :
       LET imp == fetch_important_contacts(TRUE)
           r == CronPass(SubSeq(DialogOrder, 1, done), PassBegin(state2),
                         imp, fails)
       IN /\ loaded' = state2
          /\ PassEnd("cron", "other", TRUE, imp, r, done, CronSaves(r))
  /\ pc2' = "idle" /\ state2' = EmptyState
  /\ UNCHANGED <<config, env, proc>>

NextRace ==
  \/ Next
  \/ \E f \in BOOLEAN : other_load(f)
  \/ other_sweep

\* Two overlapping invocations, under the setting that watches the chats by
\* name and ignores one of them.
RaceSettings == {k \in Settings : k.IGNORE_CHAT_IDS # {}}
InitRace == Start(RaceSettings, {PlainText})
SpecRace == InitRace /\ [][NextRace]_vars

\* The account with the dialogs Alice and Twin, whose state keys differ in
\* the entity kind only, under the setting in which both are important, in
\* scope and not ignored.
KindSettings == {k \in Settings : k.IGNORE_CHAT_IDS # {}}
InitKinds == StartOn(KindSettings, {PlainText}, {Alice, Twin})
SpecKinds == InitKinds /\ [][Next]_vars

\* The same program over chats that carry every kind of message, under the
\* setting that ignores one chat and forwards from the other.
ContentSettings == {k \in Settings : k.IGNORE_CHAT_IDS # {}}
InitContent == Start(ContentSettings, Contents)
SpecContent == InitContent /\ [][Next]_vars

\* ======================================================= the claims
\* The data model's predicates, stated on the configuration.
Ignored(d) == d.id \in IGNORE_CHAT_IDS

Important(d) ==
  \E c \in contacts :
    \/ c.telegramChatId # 0 /\ c.telegramChatId = d.id
    \/ /\ c.telegramUsername # "" /\ d.username # ""
       /\ Lower(c.telegramUsername) = Lower(d.username)

InScope(d) ==
  \/ watch.all
  \/ d.id \in watch.watch_chat_ids
  \/ d.username # "" /\ Lower(d.username) \in watch.watch_usernames
  \/ d.title # "" /\ Lower(d.title) \in watch.watch_usernames

InPass(d) == lastBatch[d].mode \in {"cron", "backfill"}

MaxOf(S) == CHOOSE x \in S : \A y \in S : y <= x

\* The messages a pass has to deliver in a chat, from what the transport
\* returned: the cron sweep takes every fetched message above the watermark,
\* backfill the newest messages down to the first one at or below the
\* watermark or older than the cutoff.
Candidates(d) ==
  LET b == lastBatch[d]
      wm == loaded[get_state_key(d)]
      New(i) == b.messages[i].id > wm /\ ~(b.cut /\ b.messages[i].old)
  IN IF b.mode = "cron"
     THEN {b.messages[i].id : i \in {j \in 1..Len(b.messages) : New(j)}}
     ELSE {b.messages[i].id :
             i \in {j \in 1..Len(b.messages) : \A k \in 1..j : New(k)}}

\* C1 - No redelivery: a cron or backfill pass attempts no delivery of a
\* message whose id is at or below the watermark it loaded for the chat.
C1_NoRedelivery ==
  \A d \in Dialogs :
    InPass(d) =>
      \A i \in 1..Len(lastBatch[d].attempts) :
        lastBatch[d].attempts[i].id > loaded[get_state_key(d)]

\* C1 witness: a sweep fetched the message whose id equals the loaded
\* watermark together with a newer one, and attempted only the newer one.
C1_Witness ==
  \E d \in Dialogs :
    /\ lastBatch[d].mode = "cron"
    /\ loaded[get_state_key(d)] = 1
    /\ Ids(lastBatch[d].messages) = {1, 2}
    /\ Ids(lastBatch[d].attempts) = {2}

\* C2 - Monotonic watermark: the value the state file holds for a key never
\* decreases from one step to the next.
C2_MonotonicWatermark ==
  [][\A k \in Keys : state_file'[k] >= state_file[k]]_vars

\* C3 - At-least-once on failure: a delivery that failed in a pass is
\* attempted again by the next pass of the same mode over the unchanged
\* dialogs.
C3_AtLeastOnce == missed = {}

\* C4 - A pass does not advance a chat's watermark to or past the id of a
\* message whose delivery failed in the pass.
C4_NotPastFailure ==
  \A d \in Dialogs :
    InPass(d) =>
      \A f \in FailIds(lastBatch[d].attempts) : lastBatch[d].lf < f

C6_NoDoubleSend == redelivered = {}

\* C7 - Chronological delivery: the delivery attempts of a pass in a chat
\* are in strictly increasing id order.
C7_Chronological ==
  \A d \in Dialogs :
    InPass(d) =>
      \A i, j \in 1..Len(lastBatch[d].attempts) :
        i < j => lastBatch[d].attempts[i].id < lastBatch[d].attempts[j].id

\* C7 witness: the transport returned 2 then 1, the pass attempted 1 then 2.
C7_Witness ==
  \E d \in Dialogs :
    /\ InPass(d)
    /\ Len(lastBatch[d].messages) = 2
    /\ lastBatch[d].messages[1].id = 2 /\ lastBatch[d].messages[2].id = 1
    /\ Len(lastBatch[d].attempts) = 2
    /\ lastBatch[d].attempts[1].id = 1 /\ lastBatch[d].attempts[2].id = 2

\* C8 - Ignore precedence: a chat whose id is in the ignore set is never
\* fetched, never delivered from and its watermark never set, in any mode.
C8_IgnorePrecedence ==
  \A d \in Dialogs :
    Ignored(d) =>
      /\ ~lastBatch[d].fetched
      /\ lastBatch[d].attempts = <<>>
      /\ lastBatch[d].lf = lastBatch[d].wm
      /\ state_file[get_state_key(d)] = 0
      /\ \A p \in delivered : p[1] # d

\* C8 witness: a sweep went over an ignored chat that is important, in scope
\* and holds an unread message.
C8_Witness ==
  \E d \in Dialogs :
    /\ Ignored(d) /\ Important(d) /\ InScope(d)
    /\ unread[d] > 0 /\ msgs[d] # <<>>
    /\ lastBatch[d].mode = "cron"

\* C9 - Live skeleton: the handler delivers an event only when its chat is
\* not ignored, is important and is in scope.
C9_LiveSkeleton ==
  \A d \in Dialogs :
    lastBatch[d].mode = "live" /\ lastBatch[d].attempts # <<>> =>
      ~Ignored(d) /\ Important(d) /\ InScope(d)

\* C10 - Backfill skeleton: backfill delivers from a chat, or advances its
\* watermark, only when the chat is not ignored, is important and is in
\* scope.
C10_BackfillSkeleton ==
  \A d \in Dialogs :
    /\ lastBatch[d].mode = "backfill"
    /\ lastBatch[d].attempts # <<>> \/ lastBatch[d].lf > lastBatch[d].wm
    => ~Ignored(d) /\ Important(d) /\ InScope(d)

\* C11 - Importance-fetch short-circuit: when the request for the important
\* contacts fails or gives no contact, the cron sweep or backfill pass goes
\* through no dialog, attempts no delivery, neither loads nor saves the state
\* file and returns 0.
C11_ShortCircuit ==
  lastPass.mode \in {"cron", "backfill"}
  /\ (~lastPass.fetched \/ contacts = {})
  => /\ \A d \in Dialogs : lastBatch[d] = NoBatch
     /\ ~lastPass.read /\ lastPass.saved = "none"
     /\ lastPass.ret = 0 /\ ~lastPass.raised
     /\ redelivered = {} /\ dropped = {}

\* C11 witness: the request failed, under a setting with important contacts,
\* while a chat that is important and in scope held an unread message the
\* sweep would have forwarded.
C11_Witness ==
  /\ lastPass.mode = "cron" /\ ~lastPass.fetched /\ contacts # {}
  /\ \E d \in Dialogs :
       /\ ~Ignored(d) /\ Important(d) /\ InScope(d)
       /\ unread[d] > 0
       /\ \A p \in delivered : p[1] # d

\* C12 - Single end-of-pass persistence: a cron or backfill pass calls
\* save_state if and only if at least one of its deliveries succeeded, and a
\* pass without a successful delivery leaves the state file as it was.
C12_SinglePersistence ==
  [][lastPass'.mode \in {"cron", "backfill"}
     => /\ lastPass'.saved # "none" <=> OkPairs(lastBatch') # {}
        /\ OkPairs(lastBatch') = {} => state_file' = state_file]_vars

\* The messages of a batch, newest first, that are above the watermark the
\* pass started from and not older than the cutoff.
Qualifies(b, i) ==
  b.messages[i].id > b.wm /\ ~(b.cut /\ b.messages[i].old)

\* The length of the longest prefix of qualifying messages.
PrefixLen(b) ==
  MaxOf({n \in 0..Len(b.messages) : \A k \in 1..n : Qualifies(b, k)})

PrescribedText(m) ==
  IF Strip(m.raw_text) # "" THEN Strip(m.raw_text)
  ELSE IF m.media THEN "[Media message]"
  ELSE "[No text content]"

\* C14 - Every payload delivered to the backend, by the handler, the cron
\* sweep or backfill, carries a non-empty text, and a payload of a pass
\* carries the text prescribed for its message.
C14_NonEmptyText ==
  \A d \in Dialogs :
    \A i \in 1..Len(lastBatch[d].attempts) :
      LET a == lastBatch[d].attempts[i]
      IN a.ok => /\ a.text # ""
                 /\ InPass(d) => a.text = PrescribedText(msgs[d][a.id])

\* C15 - Process exit: a cron run without an authorized session ends with
\* exit code 2 and runs neither the contact sync nor a pass (no delivery, no
\* write of the state file); a cron run with an authorized session ends
\* with its unread sweep and exit code 0.
C15_ProcessExit ==
  [][/\ pc = "idle" /\ exit_code' = 2
        => /\ pc' = "idle"
           /\ lastPass' = NoPass /\ lastBatch' = NoBatches
           /\ UNCHANGED <<state_file, delivered>>
     /\ cron_mode /\ pc # "idle" /\ pc' = "idle"
        => lastPass'.mode = "cron" /\ exit_code' = 0]_vars

\* C16 - Contact sync never blocks or fails forwarding: in cron mode the
\* contact sync is entered once, from main, and is over before a pass
\* starts; whatever its outcome (posted, transport failure, backend failure)
\* the run goes on to the backfill pass when one was requested and to the
\* unread sweep otherwise, and the step changes nothing a pass reads (the
\* state file, the messages, their unread marks) and delivers nothing.
C16_SyncNeverBlocks ==
  [][/\ pc' = "sync" /\ pc # "sync" => pc = "idle"
     /\ cron_mode' /\ pc' \in {"backfill", "cron"}
          /\ pc \notin {"backfill", "backfilling", "cron"}
        => pc = "sync" /\ lastPass'.mode = "sync"
     /\ cron_mode /\ pc = "sync" /\ pc' # "sync"
        => /\ lastPass'.mode = "sync"
           /\ pc' = (IF backfill THEN "backfill" ELSE "cron")
           /\ lastBatch' = NoBatches
           /\ UNCHANGED <<state_file, msgs, unread, delivered, exit_code>>]_vars

\* A cron run whose contact sync failed stands at the start of its pass.
C16_Witness ==
  /\ cron_mode /\ pc \in {"backfill", "cron"}
  /\ lastPass.mode = "sync"
  /\ lastPass.sync \in {"transport_failed", "backend_failed"}

\* C17 - State-file failure handling: a pass reads a missing or unreadable
\* state file as the empty mapping; a pass whose write of the state file
\* fails still completes and returns its delivery count, and the persisted
\* mapping keeps the content it had before the pass.
C17_StateFileFailure ==
  [][/\ lastPass'.read /\ ~lastPass'.raised /\ lastPass'.by = "main"
          /\ lastPass'.mode = "cron"
        => loaded' \in {state_file, EmptyState}
     /\ lastPass'.saved \in {"open_failed", "write_failed"}
        => /\ ~lastPass'.raised
           /\ lastPass'.ret = Cardinality(OkPairs(lastBatch'))
           /\ state_file' = state_file]_vars

C19_OverwriteFromSnapshot ==
  lastPass.mode = "cron" /\ lastPass.saved = "written"
  => \A d \in Dialogs :
       state_file[get_state_key(d)] =
         MaxOf({loaded[get_state_key(d)]} \cup OkIds(lastBatch[d].attempts))

\* The second invocation loaded the state, the first one delivered and
\* wrote, and the second one then delivered a message again and wrote a
\* lower watermark over the first one's.
C19_Witness ==
  /\ lastPass.by = "other" /\ lastPass.mode = "cron"
  /\ lastPass.saved = "written"
  /\ redelivered # {}
  /\ dropped # {}

\* C20 - Live events during the startup backfill: in a live process started
\* with backfill the handler is registered while the backfill pass runs, and
\* a message the handler has delivered while the pass was in progress is
\* not delivered again by the pass's walk of its chat.
C20_DeliveredOnce ==
  /\ ~cron_mode /\ pc \in {"backfill", "backfilling"} => HandlerRegistered
  /\ lastPass.mode = "backfill" => redelivered \cap live_sent = {}

\* C21 - Per-key frame: the watermark a cron or backfill pass holds for a
\* chat differs from the one it loaded only when a delivery succeeded in
\* that chat during the pass, and the mapping a pass writes has, for every
\* chat without a successful delivery in the pass, the value the pass
\* loaded: also for a chat of another entity kind with the same numeric
\* id as a chat in which a delivery succeeded.
C21_PerKeyFrame ==
  /\ \A d \in Dialogs :
       InPass(d) /\ lastBatch[d].lf # lastBatch[d].wm
       => OkIds(lastBatch[d].attempts) # {}
  /\ lastPass.mode \in {"cron", "backfill"} /\ lastPass.saved = "written"
     => \A d \in Dialogs :
          /\ InPass(d) => lastBatch[d].wm = loaded[get_state_key(d)]
          /\ OkIds(lastBatch[d].attempts) = {}
             => state_file[get_state_key(d)] = loaded[get_state_key(d)]

\* A pass delivered in one chat and wrote the state, and the chat of
\* another kind with the same numeric id keeps the watermark it had.
C21_Witness ==
  /\ lastPass.mode \in {"cron", "backfill"} /\ lastPass.saved = "written"
  /\ \E d \in Dialogs, e \in Dialogs :
       /\ d.id = e.id /\ d.kind # e.kind
       /\ OkIds(lastBatch[d].attempts) # {}
       /\ state_file[get_state_key(d)] > loaded[get_state_key(d)]
       /\ OkIds(lastBatch[e].attempts) = {}
       /\ loaded[get_state_key(e)] > 0
       /\ state_file[get_state_key(e)] = loaded[get_state_key(e)]

\* The place of a position of main in a cron run.
Step(p) ==
  CASE p = "sync" -> 1
    [] p = "backfill" -> 2
    [] p = "backfilling" -> 3
    [] p = "cron" -> 4
    [] OTHER -> 5

\* C22 - Termination of single-pass modes: a cron run terminates.  A pass
\* makes at most one delivery attempt for a message, and only for a
\* message it has to deliver; the run only moves forward, from the contact
\* sync over the optional backfill pass to the unread sweep, no step being
\* taken twice; and a run that has started reaches its exit.
C22_CronRunTerminates ==
  /\ [](\A d \in Dialogs :
          InPass(d)
          => LET att == lastBatch[d].attempts
             IN /\ \A i \in 1..Len(att) :
                     \A j \in 1..Len(att) : i # j => att[i].id # att[j].id
                /\ Ids(att) \subseteq Candidates(d))
  /\ [][cron_mode /\ pc' # pc => Step(pc') > Step(pc)]_vars
  /\ (cron_mode /\ pc # "idle") ~> (pc = "idle")

\* A cron run has reached its exit after a sweep in which one delivery
\* failed and another succeeded.
C22_Witness ==
  /\ pc = "idle" /\ exit_code = 0
  /\ lastPass.mode = "cron" /\ lastPass.read /\ ~lastPass.raised
  /\ FailPairs(lastBatch) # {}
  /\ OkPairs(lastBatch) # {}

====
